---- MODULE Spec2Model ----
(***************************************************************************)
(* State-machine model of the fortuna frontend (personal finance savings   *)
(* predictor): the fetchWithRetry wrapper, the Dashboard load with its     *)
(* aggregation (processTransactionData), the UserProfile form, the         *)
(* TransactionForm with its quick input, and the SavingsPrediction load.   *)
(* The backend is not part of the sources: what the model needs of it      *)
(* (the stores, the quick-entry parser, the prediction engine) follows     *)
(* the written specification of the API.                                   *)
(*                                                                         *)
(* Conventions                                                             *)
(*  - A JavaScript value that is either a number or the empty string ''    *)
(*    is a record: Num(n) or EmptyStr.                                     *)
(*  - A calendar date 'YYYY-MM-DD' is the number of its day, counted from  *)
(*    the local calendar day of the browser (day 0); the text form is an   *)
(*    order-preserving one-to-one image of that number, so === on the      *)
(*    strings is = on the numbers.                                         *)
(*  - Amounts are whole currency units (binary floating point rounding is  *)
(*    outside the model).                                                  *)
(*  - An HTTP status of 0 stands for "no response" (network error or the   *)
(*    10 s axios timeout): err.response is undefined.                      *)
(***************************************************************************)
EXTENDS Integers, Sequences, FiniteSets, TLC

VARIABLES
    \* ---- environment -------------------------------------------------
    txStore,        \* Transaction Store: what GET /transactions/{userId} returns
    profileStore,   \* Profile Store: the user's profile, or NoProfile
    nowHour,        \* local wall-clock hour of "new Date()" (the local day is 0)
    tz,             \* time zone of the browser: [base, dst]
    \* ---- fetchWithRetry (one call at a time) --------------------------
    rpc,            \* "idle" | "get" | "sleep" | "returned" | "thrown"
    url,            \* endpoint of the current call
    retries,        \* the local variable `retries`
    gets,           \* history: number of axios.get attempts issued by this call
    waits,          \* history: the setTimeout delays (ms) this call inserted
    outcome,        \* what the call returned or threw
    seen404,        \* history: some attempt of this call was answered 404
    \* ---- Dashboard ----------------------------------------------------
    dpc,            \* position of fetchData
    transactions,   \* useState([])
    trendData,      \* useState([])
    dLoading,       \* useState(true)
    dError,         \* useState(null)
    summaryData,    \* useState({byCategory: {}, recentTrends: []})
    trendSource,    \* history: "none" | "api" | "computed": where recentTrends came from
    \* ---- UserProfile --------------------------------------------------
    formData,       \* useState({age: '', dependents: 0, occupation: ''})
    pLoading,       \* useState(true)
    saving,         \* useState(false)
    pError,         \* useState(null)
    success,        \* useState(false)
    ppc,            \* fetchUserProfile: "mount" | "get" | "done"
    postBody,       \* the POST /api/profile in flight: <<>> or <<body>>
    navTimer,       \* a pending setTimeout(navigate('/dashboard'), 2000)
    navigated,      \* navigate('/dashboard') was called
    \* ---- TransactionForm ----------------------------------------------
    tForm,          \* useState({category: '', amount: '', description: '', date})
    tLoading,       \* useState(false)
    tError,         \* useState(null)
    tSuccess,       \* useState(false)
    quickInput,     \* useState('')
    tPost,          \* the POST /api/transactions in flight: <<>> or <<body>>
    parseReq,       \* the POST /api/parse-transaction calls in flight
    tNavTimer,      \* a pending setTimeout(navigate('/dashboard'), 2000)
    tNavigated,     \* navigate('/dashboard') was called
    \* ---- SavingsPrediction --------------------------------------------
    spc,            \* position of fetchPredictions
    predictions,    \* useState(null): <<>> or <<response.data>>
    sLoading,       \* useState(true)
    sError,         \* useState(null)
    hasProfile,     \* useState(true)
    hasTransactions,\* useState(true)
    requested,      \* history: the endpoints fetchPredictions asked for, in order
    \* ---- another session of the same user -----------------------------
    otherPost,      \* its POST /api/profile in flight: <<>> or <<profile>>
    otherAcked,     \* history: a POST of that session was answered 200
    \* ---- App ----------------------------------------------------------
    route,          \* the location of the router: the one page that is mounted
    \* ---- SavingsPrediction, rendered -----------------------------------
    cells,          \* <<>> or <<category -> text of its Recommendation cell>>
    \* ---- history ------------------------------------------------------
    evt             \* name of the handler or callback that ran last

envVars   == <<txStore, profileStore, nowHour, tz>>
retryVars == <<rpc, url, retries, gets, waits, outcome, seen404>>
dashVars  == <<dpc, transactions, trendData, dLoading, dError, summaryData, trendSource>>
profVars  == <<formData, pLoading, saving, pError, success, ppc, postBody,
               navTimer, navigated>>
formVars  == <<tForm, tLoading, tError, tSuccess, quickInput, tPost, parseReq,
               tNavTimer, tNavigated>>
predVars  == <<spc, predictions, sLoading, sError, hasProfile, hasTransactions,
               requested>>
peerVars  == <<otherPost, otherAcked>>
appVars   == <<route>>
viewVars  == <<cells>>
vars      == <<envVars, retryVars, dashVars, profVars, formVars, predVars, peerVars,
               appVars, viewVars, evt>>

\* ------------------------------------------------------------------ bounds
MaxTx == 2                      \* longest transaction list in the store
Categories == {"Groceries", "Transport"}   \* two of the eight categories
Amounts == {0, 2}
TxDates == {-7, 0, 1}           \* a week ago, the local today, tomorrow
Hours == {0, 23}                \* just after and just before local midnight
DstDaysAgo == 3                 \* a daylight-saving change took effect that many days ago
\* Time zones: base = hours east of UTC before the change, shift = what the
\* change added to it (0: no daylight-saving change within the last week).
TimeZones ==
    { [base |-> 0, shift |-> 0], [base |-> 1, shift |-> 0], [base |-> -1, shift |-> 0],
      [base |-> 1, shift |-> -1], [base |-> 0, shift |-> 1] }
UTC == [base |-> 0, shift |-> 0]

\* ------------------------------------------------------------- JS values
Null == "null"
Num(n) == [t |-> "num", n |-> n]
EmptyStr == [t |-> "str", n |-> 0]
NaN == [t |-> "nan", n |-> 0]
\* ToBoolean: '', 0 and NaN are falsy.
Truthy(v) == v.t = "num" /\ v.n # 0
\* ToNumber for a relational comparison: '' is 0.
ToNumber(v) == IF v.t = "num" THEN v.n ELSE 0
\* a || b
JsOr(a, b) == IF Truthy(a) THEN a ELSE b
\* a < n and a > n for a number n: '' compares as 0, NaN compares false.
JsLt(a, n) == a.t # "nan" /\ ToNumber(a) < n
JsGt(a, n) == a.t # "nan" /\ ToNumber(a) > n

\* ------------------------------------------------------------ environment
Transaction == [category : Categories, amount : Amounts, date : TxDates]
TxLists == UNION { [1..n -> Transaction] : n \in 0..MaxTx }
NoProfile == [age |-> 0, dependents |-> 0, occupation |-> ""]
StoredProfiles == { [age |-> 64, dependents |-> 2, occupation |-> "Retired"] }

RECURSIVE SumAmounts(_)
\* reduce((sum, t) => sum + t.amount, 0)
SumAmounts(ts) ==
    IF ts = <<>> THEN 0 ELSE SumAmounts(SubSeq(ts, 1, Len(ts) - 1)) + ts[Len(ts)].amount

\* filter(t => t.date === date)
OnDate(ts, d) == SelectSeq(ts, LAMBDA t : t.date = d)

\* Date arithmetic.  A Date holds a UTC instant; setDate/getDate work on the
\* local calendar fields, toISOString prints the UTC fields.  Offset(zone, d)
\* is the zone's offset (hours east of UTC) in force on local day d; the UTC
\* day of an instant is its hour count divided by 24, rounded down.
Offset(zone, d) == zone.base + (IF d >= 0 - DstDaysAgo THEN zone.shift ELSE 0)
\* new Date(today); date.setDate(date.getDate() - i); date.toISOString().slice(0, 10)
IsoDateDaysAgo(zone, hour, i) == ((0 - i) * 24 + hour - Offset(zone, 0 - i)) \div 24

\* The API layer (backend, not part of the frontend sources): the spending
\* trends endpoint answers with the Aggregation Engine's 7-day sequence for
\* the server's (UTC) today.
ServerTrends(ts, today) ==
    [daily_spending |->
        [k \in 1..7 |-> [date |-> today - 7 + k, amount |-> SumAmounts(OnDate(ts, today - 7 + k))]]]

\* The Aggregation Engine of the backend: category -> summed amount, over the
\* categories that occur at least once.
ServerAggregate(ts) ==
    [c \in {ts[i].category : i \in DOMAIN ts} |->
        SumAmounts(SelectSeq(ts, LAMBDA t : t.category = c))]

\* The Prediction Engine of the backend.  Its policy is a configured rate per
\* category, here in percent (a rate in [0,1] is 0..100 percent), with a
\* baseline rate for the categories the configuration does not name.
\* Amounts are whole currency units, potential savings are hundredths of a
\* unit (so that amount * percent is exact) and a savings percentage is in
\* hundredths of a percent, rounded down.
BaselineRatePercent == 10
RatePercentAboveOne(c) == 100 + 20
RatePercent(c) == IF c = "Groceries" THEN 20 ELSE BaselineRatePercent
\* 100 * potential_savings / actual_expense, 0 when actual_expense is 0
\* (SavingsPercentageNoGuard: the division without the guard has no number
\* to give for 0 / 0; -1 stands for that.)
SavingsPercentageNoGuard(savings, expense) ==
    IF expense = 0 THEN 0 - 1 ELSE (100 * savings) \div expense
SavingsPercentage(savings, expense) ==
    IF expense = 0 THEN 0 ELSE (100 * savings) \div expense

RECURSIVE SumOf(_, _)
\* the sum of m[c][field] over the categories c of m
SumOf(m, field) ==
    IF DOMAIN m = {} THEN 0
    ELSE LET c == CHOOSE x \in DOMAIN m : TRUE
         IN  m[c][field] + SumOf([x \in DOMAIN m \ {c} |-> m[x]], field)

Predict(byCategory) ==
    LET perCategory ==
            [c \in DOMAIN byCategory |->
                [actual_expense |-> byCategory[c],
                 potential_savings |-> byCategory[c] * RatePercent(c),
                 savings_percentage |->
                     SavingsPercentage(byCategory[c] * RatePercent(c), byCategory[c])]]
        expenses == SumOf(perCategory, "actual_expense")
        savings == SumOf(perCategory, "potential_savings")
    IN  [predictions |-> perCategory,
         totals |-> [actual_expenses |-> expenses,
                     potential_savings |-> savings,
                     savings_percentage |-> SavingsPercentage(savings, expenses)]]

\* What one GET of endpoint u can answer.  It can always fail transiently:
\* status 0 (no response) or 500.  Otherwise the profile endpoint answers the
\* definitive 404 when the user has no profile, so does the predict endpoint,
\* and every endpoint answers 200 with its data.
Has200(u) == u \notin {"profile", "predict"} \/ profileStore # NoProfile
Data200(u) ==
    CASE u = "transactions" -> txStore
      [] u = "spending-trends" -> ServerTrends(txStore, IsoDateDaysAgo(tz, nowHour, 0))
      [] u = "profile" -> profileStore
      [] u = "predict" -> Predict(ServerAggregate(txStore))
ErrorStatuses(u) == {0, 500} \cup (IF Has200(u) THEN {} ELSE {404})

\* --------------------------------------------------------- fetchWithRetry
maxRetriesFour == 3 + 1
maxRetries == 3
Urls == {"transactions", "spending-trends", "profile", "predict"}
NoOutcome == [kind |-> "none", att |-> 0, status |-> 0, data |-> Null]

\* while (retries < maxRetries)
LoopCondition(r) == r < maxRetries

\* if (retries === maxRetries) throw error
IsLastRetryNever(r) == FALSE
IsLastRetry(r) == r = maxRetries

\* setTimeout(resolve, 1000 * retries)
BackoffDelayConstant(r) == 1000
BackoffDelay(r) == 1000 * r

\* The while loop is (re-)entered with r retries after g attempts: the next
\* attempt is issued, or the loop ends and the function returns undefined.
EnterLoop(r, g) ==
    IF LoopCondition(r)
    THEN /\ rpc' = "get"
         /\ gets' = g + 1
         /\ outcome' = NoOutcome
    ELSE /\ rpc' = "returned"
         /\ gets' = g
         /\ outcome' = [kind |-> "undefined", att |-> 0, status |-> 0, data |-> Null]

\* fetchWithRetry(u): let retries = 0, then the first loop test.  The caller's
\* part of the step is in the action that uses this.
CallFetch(u) ==
    /\ url' = u
    /\ retries' = 0
    /\ waits' = <<>>
    /\ seen404' = FALSE
    /\ EnterLoop(0, 0)

\* return await axios.get(url, ...) resolves (status 2xx).
GetResolves ==
    /\ rpc = "get"
    /\ Has200(url)
    /\ outcome' = [kind |-> "response", att |-> gets, status |-> 200, data |-> Data200(url)]
    /\ rpc' = "returned"
    /\ evt' = "GetResolves"
    /\ UNCHANGED <<url, retries, gets, waits, seen404, envVars, dashVars, profVars, formVars, predVars, peerVars, appVars, viewVars>>

\* axios.get rejects (no response, or a status outside 2xx): the catch block.
GetRejects ==
    /\ rpc = "get"
    /\ \E status \in ErrorStatuses(url) :
          /\ retries' = retries + 1
          /\ IF IsLastRetry(retries')
             THEN /\ rpc' = "thrown"
                  /\ outcome' = [kind |-> "error", att |-> gets, status |-> status,
                                 data |-> Null]
                  /\ waits' = waits
             ELSE /\ rpc' = "sleep"
                  /\ outcome' = [kind |-> "caught", att |-> gets, status |-> status,
                                 data |-> Null]
                  /\ waits' = Append(waits, BackoffDelay(retries'))
          /\ seen404' = (seen404 \/ status = 404)
    /\ evt' = "GetRejects"
    /\ UNCHANGED <<url, gets, envVars, dashVars, profVars, formVars, predVars, peerVars, appVars, viewVars>>

\* The backoff timer fires: back to the loop test.
BackoffElapses ==
    /\ rpc = "sleep"
    /\ EnterLoop(retries, gets)
    /\ evt' = "BackoffElapses"
    /\ UNCHANGED <<url, retries, waits, seen404, envVars, dashVars, profVars, formVars, predVars, peerVars, appVars, viewVars>>

\* -------------------------------------------------------------- Dashboard
TrendDays == 7
EmptyMapping == [c \in {} |-> 0]

\* One step of the reduce that groups by category:
\*   if (!acc[category]) acc[category] = 0;  acc[category] += amount
ByCategoryStepOverwrite(acc, t) ==
    [c \in DOMAIN acc \cup {t.category} |-> IF c = t.category THEN t.amount ELSE acc[c]]
ByCategoryStep(acc, t) ==
    LET c0 == t.category
        fresh == c0 \notin DOMAIN acc \/ acc[c0] = 0
        base == [c \in DOMAIN acc \cup {c0} |-> IF c = c0 /\ fresh THEN 0 ELSE acc[c]]
    IN  [base EXCEPT ![c0] = @ + t.amount]

RECURSIVE ByCategoryFrom(_, _)
ByCategoryFrom(acc, ts) ==
    IF ts = <<>> THEN acc ELSE ByCategoryFrom(ByCategoryStep(acc, Head(ts)), Tail(ts))

\* transactionsData.reduce(..., {})
ByCategoryDropZero(ts) ==
    LET m == ByCategoryFrom(EmptyMapping, ts)
    IN  [c \in {x \in DOMAIN m : m[x] # 0} |-> m[c]]
ByCategory(ts) == ByCategoryFrom(EmptyMapping, ts)

\* new Array(7).fill(0).map((_, i) => ... today minus i days ...).reverse()
Last7Days(zone, hour) == [k \in 1..TrendDays |-> IsoDateDaysAgo(zone, hour, TrendDays - k)]

\* last7Days.map(date => ({date, amount: <sum of the transactions of that date>}))
TrendsFromTransactions(ts, zone, hour) ==
    LET days == Last7Days(zone, hour)
    IN  [k \in 1..TrendDays |-> [date |-> days[k], amount |-> SumAmounts(OnDate(ts, days[k]))]]

\* processTransactionData(transactionsData, trendsData = null): trends is
\* <<body>> for the body of the spending-trends response, or <<>> for null.
ProcessTransactionData(ts, trends) ==
    IF ts = <<>>
    THEN UNCHANGED <<summaryData, trendSource>>
    ELSE IF trends # <<>>
         THEN /\ summaryData' = [byCategory |-> ByCategory(ts),
                                 recentTrends |-> trends[1].daily_spending]
              /\ trendSource' = "api"
         ELSE /\ summaryData' = [byCategory |-> ByCategory(ts),
                                 recentTrends |-> TrendsFromTransactions(ts, tz, nowHour)]
              /\ trendSource' = "computed"

\* `Couldn't load transactions: Request failed with status code ${status || 'unknown'}`
\* followed by '. Please check if the backend is running.'
LoadErrorMessage(status) ==
    IF status = 500 THEN "Couldn't load transactions: status 500" 
    ELSE "Couldn't load transactions: status unknown"

\* useEffect -> fetchData: setLoading(true), setError(null), first request.
FetchDataStarts ==
    /\ dpc = "mount"
    /\ rpc = "idle"
    /\ dLoading' = TRUE
    /\ dError' = Null
    /\ CallFetch("transactions")
    /\ dpc' = "awaitTransactions"
    /\ evt' = "FetchDataStarts"
    /\ UNCHANGED <<transactions, trendData, summaryData, trendSource, envVars, profVars, formVars, predVars, peerVars, appVars, viewVars>>

\* (TransactionsSettleGoesOn: a load whose inner catch does not rethrow, so
\* that the code after it runs with the empty list.)
TransactionsSettleGoesOn ==
    /\ dpc = "awaitTransactions"
    /\ rpc \in {"returned", "thrown"}
    /\ transactions' = IF rpc = "returned" /\ outcome.kind = "response"
                       THEN outcome.data ELSE transactions
    /\ CallFetch("spending-trends")
    /\ dpc' = "awaitTrends"
    /\ evt' = "TransactionsSettle"
    /\ UNCHANGED <<dLoading, dError, trendData, summaryData, trendSource, envVars, profVars, formVars, predVars, peerVars, appVars, viewVars>>

\* The transactions request settled: setTransactions and the second request,
\* or the inner catch rethrows and the outer catch sets the error.
TransactionsSettle ==
    /\ dpc = "awaitTransactions"
    /\ rpc \in {"returned", "thrown"}
    /\ IF rpc = "returned" /\ outcome.kind = "response"
       THEN /\ transactions' = outcome.data
            /\ CallFetch("spending-trends")
            /\ dpc' = "awaitTrends"
            /\ UNCHANGED <<dLoading, dError>>
       ELSE /\ dError' = LoadErrorMessage(outcome.status)
            /\ dLoading' = FALSE
            /\ dpc' = "done"
            /\ rpc' = "idle"
            /\ UNCHANGED <<transactions, url, retries, gets, waits, outcome, seen404>>
    /\ evt' = "TransactionsSettle"
    /\ UNCHANGED <<trendData, summaryData, trendSource, envVars, profVars, formVars, predVars, peerVars, appVars, viewVars>>

\* (TrendsSettleRethrows: a load without the inner try/catch, where a failed
\* spending-trends request reaches the outer catch.)
TrendsSettleRethrows ==
    /\ dpc = "awaitTrends"
    /\ rpc \in {"returned", "thrown"}
    /\ IF rpc = "returned" /\ outcome.kind = "response"
       THEN /\ trendData' = outcome.data
            /\ ProcessTransactionData(transactions, <<outcome.data>>)
            /\ dError' = dError
       ELSE /\ dError' = LoadErrorMessage(outcome.status)
            /\ UNCHANGED <<trendData, summaryData, trendSource>>
    /\ dLoading' = FALSE
    /\ dpc' = "done"
    /\ rpc' = "idle"
    /\ evt' = "TrendsSettle"
    /\ UNCHANGED <<transactions, url, retries, gets, waits, outcome, seen404, envVars, profVars, formVars, predVars, peerVars, appVars, viewVars>>

\* The spending-trends request settled: process with the API's trends, or
\* (catch) process the transactions alone; then setLoading(false).
TrendsSettle ==
    /\ dpc = "awaitTrends"
    /\ rpc \in {"returned", "thrown"}
    /\ IF rpc = "returned" /\ outcome.kind = "response"
       THEN /\ trendData' = outcome.data
            /\ ProcessTransactionData(transactions, <<outcome.data>>)
       ELSE /\ trendData' = trendData
            /\ ProcessTransactionData(transactions, <<>>)
    /\ dLoading' = FALSE
    /\ dpc' = "done"
    /\ rpc' = "idle"
    /\ evt' = "TrendsSettle"
    /\ UNCHANGED <<transactions, dError, url, retries, gets, waits, outcome, seen404, envVars, profVars, formVars, predVars, peerVars, appVars, viewVars>>

\* ------------------------------------------------------------ UserProfile
\* What the user can type into a number input or pick in the select.
NumberTexts == {"", "-1", "0", "15", "30", "101"}
OccupationChoices == {"", "Salaried", "Retired"}

\* parseInt(value, 10) on the texts above.
ParseInt(text) ==
    CASE text = "" -> NaN
      [] text = "-1" -> Num(-1)
      [] text = "0" -> Num(0)
      [] text = "15" -> Num(15)
      [] text = "30" -> Num(30)
      [] text = "101" -> Num(101)

\* name === 'age' || name === 'dependents' ? parseInt(value, 10) || '' : value
ChangedNumber(text) == JsOr(ParseInt(text), EmptyStr)

\* if (!formData.age || !formData.occupation)
RequiredMissing(f) == ~Truthy(f.age) \/ f.occupation = ""
\* if (formData.age < 18 || formData.age > 100)
AgeOutOfRangeAnd(f) == JsLt(f.age, 18) /\ JsGt(f.age, 100)
AgeOutOfRange(f) == JsLt(f.age, 18) \/ JsGt(f.age, 100)
\* if (formData.dependents < 0)
DependentsNegative(f) == JsLt(f.dependents, 0)

\* The message of the Error the validation throws, or Null when it passes.
ValidationError(f) ==
    IF RequiredMissing(f) THEN "Please fill in all required fields"
    ELSE IF AgeOutOfRange(f) THEN "Age must be between 18 and 100"
    ELSE IF DependentsNegative(f) THEN "Number of dependents cannot be negative"
    ELSE Null

\* The API layer's validation of POST /api/profile (backend, not part of the
\* frontend sources): 400 unless age is an integer in 18..100, dependents an
\* integer >= 0 and occupation is given.
BackendAccepts(body) ==
    /\ body.age.t = "num" /\ body.age.n >= 18 /\ body.age.n <= 100
    /\ body.dependents.t = "num" /\ body.dependents.n >= 0
    /\ body.occupation # ""

\* useEffect -> fetchUserProfile: setLoading(true) and the GET.
FetchUserProfileStarts ==
    /\ ppc = "mount"
    /\ pLoading' = TRUE
    /\ ppc' = "get"
    /\ evt' = "FetchUserProfileStarts"
    /\ UNCHANGED <<formData, saving, pError, success, postBody, navTimer, navigated,
                   envVars, retryVars, dashVars, formVars, predVars, peerVars, appVars, viewVars>>

\* GET /api/profile/{userId} answers 200: the form takes the stored profile.
ProfileGetResolves ==
    /\ ppc = "get"
    /\ profileStore # NoProfile
    /\ formData' = [age |-> Num(profileStore.age),
                    dependents |-> Num(profileStore.dependents),
                    occupation |-> profileStore.occupation]
    /\ pLoading' = FALSE
    /\ ppc' = "done"
    /\ evt' = "ProfileGetResolves"
    /\ UNCHANGED <<saving, pError, success, postBody, navTimer, navigated,
                   envVars, retryVars, dashVars, formVars, predVars, peerVars, appVars, viewVars>>

\* The GET fails: a 404 (no profile) only ends loading, anything else also
\* sets the error.
ProfileGetRejects ==
    /\ ppc = "get"
    /\ \E status \in ErrorStatuses("profile") :
          pError' = IF status = 404 THEN pError
                    ELSE "Failed to fetch profile data. Please try again later."
    /\ pLoading' = FALSE
    /\ ppc' = "done"
    /\ evt' = "ProfileGetRejects"
    /\ UNCHANGED <<formData, saving, success, postBody, navTimer, navigated,
                   envVars, retryVars, dashVars, formVars, predVars, peerVars, appVars, viewVars>>

\* The form is on the page once loading is false, until the navigation.
FormShown == ~pLoading /\ ~navigated

\* handleChange for one of the three inputs.
HandleChange ==
    /\ FormShown
    /\ \/ \E text \in NumberTexts : formData' = [formData EXCEPT !.age = ChangedNumber(text)]
       \/ \E text \in NumberTexts :
             formData' = [formData EXCEPT !.dependents = ChangedNumber(text)]
       \/ \E choice \in OccupationChoices : formData' = [formData EXCEPT !.occupation = choice]
    /\ evt' = "HandleChange"
    /\ UNCHANGED <<pLoading, saving, pError, success, ppc, postBody, navTimer, navigated,
                   envVars, retryVars, dashVars, formVars, predVars, peerVars, appVars, viewVars>>

\* <button type="submit" disabled={saving}>
SubmitDisabled == saving

\* handleSubmit up to its await: setSaving(true), setError(null), validation;
\* a validation error goes through catch and finally at once, otherwise the
\* POST is issued.  The submit button is disabled while saving.
HandleSubmit ==
    /\ FormShown
    /\ ~SubmitDisabled
    /\ IF ValidationError(formData) # Null
       THEN /\ pError' = ValidationError(formData)
            /\ saving' = FALSE
            /\ postBody' = postBody
       ELSE /\ pError' = Null
            /\ saving' = TRUE
            /\ postBody' = <<[age |-> formData.age, dependents |-> formData.dependents,
                               occupation |-> formData.occupation]>>
    /\ evt' = "HandleSubmit"
    /\ UNCHANGED <<formData, pLoading, success, ppc, navTimer, navigated,
                   envVars, retryVars, dashVars, formVars, predVars, peerVars, appVars, viewVars>>

\* The profile an accepted body describes.
ProfileOf(body) ==
    [age |-> body.age.n, dependents |-> body.dependents.n, occupation |-> body.occupation]

\* The Profile Store's upsert (backend, not part of the frontend sources):
\* one atomic write that creates the user's profile or overwrites it.
UpsertKeepsAge(stored, profile) ==
    IF stored = NoProfile THEN profile ELSE [profile EXCEPT !.age = stored.age]
Upsert(stored, profile) == profile

\* The POST answers 200: the store holds the profile (upsert); setSuccess(true),
\* the 2 s navigation timer, finally setSaving(false).
PostResolves ==
    /\ postBody # <<>>
    /\ BackendAccepts(postBody[1])
    /\ profileStore' = Upsert(profileStore, ProfileOf(postBody[1]))
    /\ success' = TRUE
    /\ navTimer' = TRUE
    /\ saving' = FALSE
    /\ postBody' = <<>>
    /\ evt' = "PostResolves"
    /\ UNCHANGED <<formData, pLoading, pError, ppc, navigated, txStore, nowHour, tz,
                   retryVars, dashVars, formVars, predVars, peerVars, appVars, viewVars>>

\* The POST fails (no response, 500, or the backend's 400): catch sets the
\* error, finally setSaving(false).
PostRejects ==
    /\ postBody # <<>>
    /\ \E status \in {0, 500} \cup (IF BackendAccepts(postBody[1]) THEN {} ELSE {400}) :
          pError' = IF status = 0 THEN "Network Error" ELSE "Request failed with status code"
    /\ saving' = FALSE
    /\ postBody' = <<>>
    /\ evt' = "PostRejects"
    /\ UNCHANGED <<formData, pLoading, success, ppc, navTimer, navigated,
                   envVars, retryVars, dashVars, formVars, predVars, peerVars, appVars, viewVars>>

\* setTimeout(() => navigate('/dashboard'), 2000) fires.
NavigateTimerFires ==
    /\ navTimer
    /\ navTimer' = FALSE
    /\ navigated' = TRUE
    /\ route' = "/dashboard"
    /\ evt' = "NavigateTimerFires"
    /\ UNCHANGED <<formData, pLoading, saving, pError, success, ppc, postBody,
                   envVars, retryVars, dashVars, formVars, predVars, peerVars,
                   viewVars>>

\* ------------------------------------ another session of the same user
\* The same user has the profile form open in a second browser session; what
\* that session submits passes its validation and the backend's.
OtherProfiles == { [age |-> 40, dependents |-> 1, occupation |-> "Business"] }

\* Its handleSubmit issues the POST /api/profile.
OtherSubmits ==
    /\ otherPost = <<>>
    /\ \E profile \in OtherProfiles : otherPost' = << profile >>
    /\ evt' = "OtherSubmits"
    /\ UNCHANGED <<otherAcked, envVars, retryVars, dashVars, profVars, formVars, predVars, appVars, viewVars>>

\* Its POST is answered 200: the store holds its profile.
OtherPostResolves ==
    /\ otherPost # <<>>
    /\ profileStore' = Upsert(profileStore, otherPost[1])
    /\ otherPost' = <<>>
    /\ otherAcked' = TRUE
    /\ evt' = "OtherPostResolves"
    /\ UNCHANGED <<txStore, nowHour, tz, retryVars, dashVars, profVars, formVars, predVars, appVars, viewVars>>

\* Its POST fails (no response, 500).
OtherPostRejects ==
    /\ otherPost # <<>>
    /\ otherPost' = <<>>
    /\ evt' = "OtherPostRejects"
    /\ UNCHANGED <<otherAcked, envVars, retryVars, dashVars, profVars, formVars, predVars, appVars, viewVars>>

\* -------------------------------------------------------- TransactionForm
\* const categories = [...]
categories ==
    {"Groceries", "Transport", "Eating_Out", "Entertainment", "Utilities",
     "Healthcare", "Education", "Miscellaneous"}

\* What the user can put into the fields: the select offers '' and the
\* categories (one of them is followed), the amount input hands its text to
\* handleChange, the date input a calendar day.
CategoryChoices == {"", "Eating_Out"}
AmountTexts == {"0", "-5", "30"}
DescriptionTexts == {"", "Samosa"}
DateChoices == {-1, 0}
InputValues(name) ==
    CASE name = "category" -> CategoryChoices
      [] name = "amount" -> AmountTexts
      [] name = "description" -> DescriptionTexts
      [] name = "date" -> DateChoices
QuickTexts == {"", " ", "Samosa 30rs food", "Samosa 0rs food", "hello"}

\* parseFloat(value) on the texts above.
ParseFloat(text) ==
    CASE text = "" -> NaN
      [] text = "0" -> Num(0)
      [] text = "-5" -> Num(-5)
      [] text = "30" -> Num(30)

\* name === 'amount' ? parseFloat(value) || '' : value
ChangedAmount(text) == JsOr(ParseFloat(text), EmptyStr)

\* new Date().toISOString().split('T')[0]
TodayIso == IsoDateDaysAgo(tz, nowHour, 0)

\* The form as useState creates it and as a successful submit resets it.
BlankForm == [category |-> "", amount |-> EmptyStr, description |-> "", date |-> TodayIso]

\* if (!formData.category || !formData.amount || !formData.description)
FieldMissingNoAmount(f) == f.category = "" \/ f.description = ""
FieldMissing(f) == f.category = "" \/ ~Truthy(f.amount) \/ f.description = ""

\* The body of axios.post(`${apiURL}/transactions`, {...}); user_id is the
\* constant userId of the App.
TransactionBody(f) ==
    [category |-> f.category, amount |-> f.amount, description |-> f.description,
     date |-> f.date]

\* err.message of a rejected axios call.
AxiosMessage(status) ==
    CASE status = 0 -> "Network Error"
      [] status = 400 -> "Request failed with status code 400"
      [] status = 404 -> "Request failed with status code 404"
      [] status = 500 -> "Request failed with status code 500"

\* The API layer's validation of POST /api/transactions (backend, not part
\* of the frontend sources): 400 on a missing or invalid field.
BackendAcceptsTransaction(body) ==
    /\ body.category \in categories
    /\ body.amount.t = "num" /\ body.amount.n >= 0
    /\ body.description # ""

\* quickInput.trim() on the texts above.
TrimNothing(text) == text
Trim(text) == IF text = " " THEN "" ELSE text

\* The Quick-Entry Parser (backend, not part of the frontend sources):
\* <description> <amount><unit> <category-keyword>, "food" is Eating_Out.
\* <<>> stands for a ParseError (400).
ParserResult(text) ==
    CASE text = "Samosa 30rs food" ->
            << [description |-> "Samosa", amount |-> Num(30), category |-> "Eating_Out"] >>
      [] text = "Samosa 0rs food" ->
            << [description |-> "Samosa", amount |-> Num(0), category |-> "Eating_Out"] >>
      [] OTHER -> <<>>

\* The component is mounted until navigate('/dashboard') replaces it.
TxFormShown == ~tNavigated

\* handleChange for the input called name, whose new text is value:
\* setFormData({...formData, [name]: name === 'amount' ? parseFloat(value) || '' : value})
TxHandleChangeOf(name, value) ==
    /\ TxFormShown
    /\ tForm' = [tForm EXCEPT ![name] = IF name = "amount" THEN ChangedAmount(value)
                                                            ELSE value]
    /\ evt' = "TxHandleChange"
    /\ UNCHANGED <<tLoading, tError, tSuccess, quickInput, tPost, parseReq, tNavTimer,
                   tNavigated, envVars, retryVars, dashVars, profVars, predVars, peerVars, appVars, viewVars>>

TxHandleChange ==
    \E name \in {"category", "amount", "description", "date"} :
        \E value \in InputValues(name) : TxHandleChangeOf(name, value)

\* <button type="submit" disabled={loading}>
TxSubmitNeverDisabled == FALSE
TxSubmitDisabled == tLoading

\* handleSubmit up to its await: setLoading(true), setError(null), then the
\* validation throws (catch: setError, finally: setLoading(false)) or the
\* POST is issued.  The submit button is disabled while loading.
TxHandleSubmit ==
    /\ TxFormShown
    /\ ~TxSubmitDisabled
    /\ IF FieldMissing(tForm)
       THEN /\ tError' = "Please fill in all required fields"
            /\ tLoading' = FALSE
            /\ tPost' = tPost
       ELSE /\ tError' = Null
            /\ tLoading' = TRUE
            /\ tPost' = << TransactionBody(tForm) >>
    /\ evt' = "TxHandleSubmit"
    /\ UNCHANGED <<tForm, tSuccess, quickInput, parseReq, tNavTimer, tNavigated,
                   envVars, retryVars, dashVars, profVars, predVars, peerVars, appVars, viewVars>>

\* The POST answers 2xx: setSuccess(true), the form and the quick input are
\* reset, the redirect timer is started; finally setLoading(false).  What the
\* Transaction Store does with the accepted body is not followed here: no
\* handler of the form reads the store.
TxPostResolves ==
    /\ TxFormShown
    /\ tPost # <<>>
    /\ BackendAcceptsTransaction(tPost[1])
    /\ tSuccess' = TRUE
    /\ tForm' = BlankForm
    /\ quickInput' = ""
    /\ tNavTimer' = TRUE
    /\ tLoading' = FALSE
    /\ tPost' = <<>>
    /\ evt' = "TxPostResolves"
    /\ UNCHANGED <<tError, parseReq, tNavigated,
                   envVars, retryVars, dashVars, profVars, predVars, peerVars, appVars, viewVars>>

\* (TxPostRejectsRedirects: a handler that starts the redirect timer in its
\* finally block instead of after the await.)
TxPostRejectsRedirects ==
    /\ TxFormShown
    /\ tPost # <<>>
    /\ \E status \in {0, 500} \cup (IF BackendAcceptsTransaction(tPost[1]) THEN {} ELSE {400}) :
          tError' = AxiosMessage(status)
    /\ tLoading' = FALSE
    /\ tPost' = <<>>
    /\ tNavTimer' = TRUE
    /\ evt' = "TxPostRejects"
    /\ UNCHANGED <<tForm, tSuccess, quickInput, parseReq, tNavigated,
                   envVars, retryVars, dashVars, profVars, predVars, peerVars, appVars, viewVars>>

\* The POST fails: catch sets err.message, finally setLoading(false).
TxPostRejects ==
    /\ TxFormShown
    /\ tPost # <<>>
    /\ \E status \in {0, 500} \cup (IF BackendAcceptsTransaction(tPost[1]) THEN {} ELSE {400}) :
          tError' = AxiosMessage(status)
    /\ tLoading' = FALSE
    /\ tPost' = <<>>
    /\ evt' = "TxPostRejects"
    /\ UNCHANGED <<tForm, tSuccess, quickInput, parseReq, tNavTimer, tNavigated,
                   envVars, retryVars, dashVars, profVars, predVars, peerVars, appVars, viewVars>>

\* The redirect timer fires.
TxNavigateTimerFires ==
    /\ TxFormShown
    /\ tNavTimer
    /\ tNavTimer' = FALSE
    /\ tNavigated' = TRUE
    /\ route' = "/dashboard"
    /\ evt' = "TxNavigateTimerFires"
    /\ UNCHANGED <<tForm, tLoading, tError, tSuccess, quickInput, tPost, parseReq,
                   envVars, retryVars, dashVars, profVars, predVars, peerVars,
                   viewVars>>

\* handleQuickInputChange
HandleQuickInputChange ==
    /\ TxFormShown
    /\ \E text \in QuickTexts : quickInput' = text
    /\ evt' = "HandleQuickInputChange"
    /\ UNCHANGED <<tForm, tLoading, tError, tSuccess, tPost, parseReq, tNavTimer,
                   tNavigated, envVars, retryVars, dashVars, profVars, predVars, peerVars, appVars, viewVars>>

\* handleQuickInputSubmit -> parseTransactionText up to its await: nothing
\* for a blank text, else the POST /api/parse-transaction is issued.  The
\* callback that will take the answer closes over the formData of this
\* render; of that object only the date survives the later spread, so the
\* date is what the call in flight carries.  One parse call at a time is
\* followed.
ParseTransactionText ==
    /\ TxFormShown
    /\ IF Trim(quickInput) = ""
       THEN parseReq' = parseReq
       ELSE /\ parseReq = <<>>
            /\ parseReq' = << [text |-> quickInput, date |-> tForm.date] >>
    /\ evt' = "ParseTransactionText"
    /\ UNCHANGED <<tForm, tLoading, tError, tSuccess, quickInput, tPost, tNavTimer,
                   tNavigated, envVars, retryVars, dashVars, profVars, predVars, peerVars, appVars, viewVars>>

\* The parse call answers 200: setFormData({...formData, description, amount, category}).
ParseResolves ==
    /\ TxFormShown
    /\ parseReq # <<>>
    /\ ParserResult(parseReq[1].text) # <<>>
    /\ LET r == ParserResult(parseReq[1].text)[1]
       IN  tForm' = [category |-> r.category, amount |-> r.amount,
                     description |-> r.description, date |-> parseReq[1].date]
    /\ parseReq' = <<>>
    /\ evt' = "ParseResolves"
    /\ UNCHANGED <<tLoading, tError, tSuccess, quickInput, tPost, tNavTimer, tNavigated,
                   envVars, retryVars, dashVars, profVars, predVars, peerVars, appVars, viewVars>>

\* The parse call fails (400 ParseError, or no usable answer): setError.
\* (ParseRejectsSilently: a catch block that only logs.)
ParseRejectsSilently ==
    /\ TxFormShown
    /\ parseReq # <<>>
    /\ parseReq' = <<>>
    /\ evt' = "ParseRejects"
    /\ UNCHANGED <<tForm, tLoading, tError, tSuccess, quickInput, tPost, tNavTimer,
                   tNavigated, envVars, retryVars, dashVars, profVars, predVars, peerVars, appVars, viewVars>>
ParseRejects ==
    /\ TxFormShown
    /\ parseReq # <<>>
    /\ tError' = "Could not parse transaction. Please use format: \"Item amount category\""
    /\ parseReq' = <<>>
    /\ evt' = "ParseRejects"
    /\ UNCHANGED <<tForm, tLoading, tSuccess, quickInput, tPost, tNavTimer, tNavigated,
                   envVars, retryVars, dashVars, profVars, predVars, peerVars, appVars, viewVars>>

\* ------------------------------------------------------ SavingsPrediction
\* setError(`Failed to fetch predictions: ${err.message || 'Unknown error'}`)
PredictionErrorMessage(status) ==
    CASE status = 0 -> "Failed to fetch predictions: Network Error"
      [] status = 404 -> "Failed to fetch predictions: Request failed with status code 404"
      [] status = 500 -> "Failed to fetch predictions: Request failed with status code 500"

\* err.response && err.response.status === 404
IsNotFound(status) == status = 404

\* response.data && response.data.length > 0
HasDataAlways(data) == TRUE
HasData(data) == Len(data) > 0

\* useEffect -> fetchPredictions: setLoading(true), setError(null), then
\* checkUserProfile asks for the profile.
FetchPredictionsStarts ==
    /\ spc = "mount"
    /\ rpc = "idle"
    /\ sLoading' = TRUE
    /\ sError' = Null
    /\ CallFetch("profile")
    /\ requested' = Append(requested, "profile")
    /\ spc' = "awaitProfile"
    /\ evt' = "FetchPredictionsStarts"
    /\ UNCHANGED <<predictions, hasProfile, hasTransactions,
                   envVars, dashVars, profVars, formVars, peerVars, appVars, viewVars>>

\* The profile call settled.  Returned: setHasProfile(true) and
\* checkUserTransactions asks for the transactions.  Thrown with a 404:
\* setHasProfile(false), setLoading(false), fetchPredictions returns.  Thrown
\* otherwise: rethrown into the catch of fetchPredictions.
ProfileCheckSettles ==
    /\ spc = "awaitProfile"
    /\ rpc \in {"returned", "thrown"}
    /\ IF rpc = "returned"
       THEN /\ hasProfile' = TRUE
            /\ CallFetch("transactions")
            /\ requested' = Append(requested, "transactions")
            /\ spc' = "awaitTransactions"
            /\ UNCHANGED <<sLoading, sError>>
       ELSE /\ IF IsNotFound(outcome.status)
               THEN /\ hasProfile' = FALSE
                    /\ sError' = sError
               ELSE /\ hasProfile' = hasProfile
                    /\ sError' = PredictionErrorMessage(outcome.status)
            /\ sLoading' = FALSE
            /\ spc' = "done"
            /\ rpc' = "idle"
            /\ UNCHANGED <<requested, url, retries, gets, waits, outcome, seen404>>
    /\ evt' = "ProfileCheckSettles"
    /\ UNCHANGED <<predictions, hasTransactions,
                   envVars, dashVars, profVars, formVars, peerVars, appVars, viewVars>>

\* The transactions call settled.  Returned: setHasTransactions(hasData), and
\* with data the predictions are asked for, without data fetchPredictions
\* returns.  Thrown: setHasTransactions(false), setLoading(false), and
\* fetchPredictions returns.
TransactionsCheckSettles ==
    /\ spc = "awaitTransactions"
    /\ rpc \in {"returned", "thrown"}
    /\ IF rpc = "returned"
       THEN /\ hasTransactions' = HasData(outcome.data)
            /\ IF HasData(outcome.data)
               THEN /\ CallFetch("predict")
                    /\ requested' = Append(requested, "predict")
                    /\ spc' = "awaitPredict"
               ELSE /\ spc' = "done"
                    /\ rpc' = "idle"
                    /\ UNCHANGED <<requested, url, retries, gets, waits, outcome, seen404>>
            /\ sLoading' = sLoading
       ELSE /\ hasTransactions' = FALSE
            /\ sLoading' = FALSE
            /\ spc' = "done"
            /\ rpc' = "idle"
            /\ UNCHANGED <<requested, url, retries, gets, waits, outcome, seen404>>
    /\ evt' = "TransactionsCheckSettles"
    /\ UNCHANGED <<predictions, sError, hasProfile,
                   envVars, dashVars, profVars, formVars, peerVars, appVars, viewVars>>

\* The predict call settled: setPredictions(response.data), or the catch of
\* fetchPredictions sets the error; setLoading(false) either way.
PredictSettles ==
    /\ spc = "awaitPredict"
    /\ rpc \in {"returned", "thrown"}
    /\ IF rpc = "returned"
       THEN /\ predictions' = << outcome.data >>
            /\ sError' = sError
       ELSE /\ predictions' = predictions
            /\ sError' = PredictionErrorMessage(outcome.status)
    /\ sLoading' = FALSE
    /\ spc' = "done"
    /\ rpc' = "idle"
    /\ evt' = "PredictSettles"
    /\ UNCHANGED <<hasProfile, hasTransactions, requested,
                   url, retries, gets, waits, outcome, seen404,
                   envVars, dashVars, profVars, formVars, peerVars, appVars, viewVars>>

\* What the component renders.
PredictionView ==
    IF ~hasProfile THEN "Profile Missing"
    ELSE IF ~hasTransactions THEN "No Transactions Found"
    ELSE IF sLoading THEN "loading"
    ELSE IF sError # Null THEN "error"
    ELSE "predictions"

\* The Recommendation cell of one row of the table, from the row's
\* savings_percentage.  Percentages are in hundredths of a percent, as the
\* backend's are: 20 percent is 20 * 100.
RecommendationInclusive(pct) ==
    IF pct >= 20 * 100 THEN "High potential for savings!"
    ELSE IF pct >= 10 * 100 THEN "Moderate savings possible"
    ELSE "Good job! You're already efficient"
Recommendation(pct) ==
    IF pct > 20 * 100 THEN "High potential for savings!"
    ELSE IF pct > 10 * 100 THEN "Moderate savings possible"
    ELSE "Good job! You're already efficient"

\* The table of predictions is rendered: one row per category.
RenderPredictions ==
    /\ PredictionView = "predictions"
    /\ predictions # <<>>
    /\ cells = <<>>
    /\ cells' = << [c \in DOMAIN predictions[1].predictions |->
                      Recommendation(predictions[1].predictions[c].savings_percentage)] >>
    /\ evt' = "RenderPredictions"
    /\ UNCHANGED <<envVars, retryVars, dashVars, profVars, formVars, predVars, peerVars,
                   appVars>>

\* ------------------------------------------------------------ initial state
InitRetry ==
    /\ rpc = "idle"
    /\ url = "transactions"
    /\ retries = 0
    /\ gets = 0
    /\ waits = <<>>
    /\ outcome = NoOutcome
    /\ seen404 = FALSE

InitDashboard ==
    /\ dpc = "mount"
    /\ transactions = <<>>
    /\ trendData = <<>>
    /\ dLoading = TRUE
    /\ dError = Null
    /\ summaryData = [byCategory |-> EmptyMapping, recentTrends |-> <<>>]
    /\ trendSource = "none"

InitProfile ==
    /\ formData = [age |-> EmptyStr, dependents |-> Num(0), occupation |-> ""]
    /\ pLoading = TRUE
    /\ saving = FALSE
    /\ pError = Null
    /\ success = FALSE
    /\ ppc = "mount"
    /\ postBody = <<>>
    /\ navTimer = FALSE
    /\ navigated = FALSE

InitTransactionForm ==
    /\ tForm = BlankForm
    /\ tLoading = FALSE
    /\ tError = Null
    /\ tSuccess = FALSE
    /\ quickInput = ""
    /\ tPost = <<>>
    /\ parseReq = <<>>
    /\ tNavTimer = FALSE
    /\ tNavigated = FALSE

InitSavingsPrediction ==
    /\ spc = "mount"
    /\ predictions = <<>>
    /\ sLoading = TRUE
    /\ sError = Null
    /\ hasProfile = TRUE
    /\ hasTransactions = TRUE
    /\ requested = <<>>

InitOtherSession == otherPost = <<>> /\ otherAcked = FALSE

InitView == cells = <<>>

InitComponents ==
    /\ InitRetry /\ InitDashboard /\ InitProfile
    /\ InitTransactionForm /\ InitSavingsPrediction /\ InitOtherSession
    /\ InitView

\* --------------------------------------- specification of fetchWithRetry
\* A caller (checkUserProfile, checkUserTransactions, fetchData, ...) awaits
\* fetchWithRetry(u) for one of the endpoints, then takes what it settled with.
CallerCalls ==
    /\ rpc = "idle"
    /\ \E u \in Urls : CallFetch(u)
    /\ evt' = "CallerCalls"
    /\ UNCHANGED <<envVars, dashVars, profVars, formVars, predVars, peerVars, appVars, viewVars>>

CallerResumes ==
    /\ rpc \in {"returned", "thrown"}
    /\ rpc' = "idle"
    /\ retries' = 0
    /\ gets' = 0
    /\ waits' = <<>>
    /\ outcome' = NoOutcome
    /\ seen404' = FALSE
    /\ evt' = "CallerResumes"
    /\ UNCHANGED <<url, envVars, dashVars, profVars, formVars, predVars, peerVars, appVars, viewVars>>

InitFetch ==
    /\ txStore \in { ts \in TxLists : Len(ts) <= 1 }
    /\ profileStore \in {NoProfile} \cup StoredProfiles
    /\ nowHour \in Hours
    /\ tz = UTC
    /\ InitComponents
    /\ route = "/dashboard"
    /\ evt = "init"

NextFetch == CallerCalls \/ GetResolves \/ GetRejects \/ BackoffElapses \/ CallerResumes

SpecFetch == InitFetch /\ [][NextFetch]_vars

\* ------------------------------------------- specification of Dashboard
InitDashboardSpec ==
    /\ txStore \in TxLists
    /\ profileStore = NoProfile
    /\ nowHour \in Hours
    /\ tz \in TimeZones
    /\ InitComponents
    /\ route = "/dashboard"
    /\ evt = "init"

NextDashboard ==
    \/ FetchDataStarts
    \/ GetResolves
    \/ GetRejects
    \/ BackoffElapses
    \/ TransactionsSettle
    \/ TrendsSettle

SpecDashboard == InitDashboardSpec /\ [][NextDashboard]_vars

\* --------------------------- specification of processTransactionData
\* The aggregation applied to a snapshot of the user's transactions, once
\* and again, while the clock moves on within the local day.
\* processTransactionData(transactionsData), trendsData left at its default.
AggregationRuns ==
    /\ ProcessTransactionData(txStore, <<>>)
    /\ evt' = "AggregationRuns"
    /\ UNCHANGED <<dpc, transactions, trendData, dLoading, dError,
                   envVars, retryVars, profVars, formVars, predVars, peerVars, appVars, viewVars>>

\* Time passes; it is still the same local calendar day.
ClockAdvances ==
    /\ \E hour \in Hours : hour > nowHour /\ nowHour' = hour
    /\ evt' = "ClockAdvances"
    /\ UNCHANGED <<txStore, profileStore, tz,
                   retryVars, dashVars, profVars, formVars, predVars, peerVars, appVars, viewVars>>

InitAggregationSpec ==
    /\ txStore \in TxLists
    /\ profileStore = NoProfile
    /\ nowHour \in Hours
    /\ tz \in TimeZones
    /\ InitComponents
    /\ route = "/dashboard"
    /\ evt = "init"

NextAggregation == AggregationRuns \/ ClockAdvances

SpecAggregation == InitAggregationSpec /\ [][NextAggregation]_vars

\* ----------------------------------------- specification of UserProfile
InitProfileSpec ==
    /\ txStore = <<>>
    /\ profileStore \in {NoProfile} \cup StoredProfiles
    /\ nowHour = 0
    /\ tz = UTC
    /\ InitComponents
    /\ route = "/profile"
    /\ evt = "init"

NextProfile ==
    \/ FetchUserProfileStarts
    \/ ProfileGetResolves
    \/ ProfileGetRejects
    \/ HandleChange
    \/ HandleSubmit
    \/ PostResolves
    \/ PostRejects
    \/ NavigateTimerFires

SpecProfile == InitProfileSpec /\ [][NextProfile]_vars

\* --------------------- specification of UserProfile with a second session
InitProfileStoreSpec ==
    /\ txStore = <<>>
    /\ profileStore = NoProfile
    /\ nowHour = 0
    /\ tz = UTC
    /\ InitComponents
    /\ route = "/profile"
    /\ evt = "init"

NextProfileStore == NextProfile \/ OtherSubmits \/ OtherPostResolves \/ OtherPostRejects

SpecProfileStore == InitProfileStoreSpec /\ [][NextProfileStore]_vars


\* -------------------------------------- specification of TransactionForm
InitTransactionFormSpec ==
    /\ txStore = <<>>
    /\ profileStore = NoProfile
    /\ nowHour = 0
    /\ tz = UTC
    /\ InitComponents
    /\ route = "/transactions/new"
    /\ evt = "init"

NextTransactionForm ==
    \/ TxHandleChange \/ TxHandleSubmit \/ TxPostResolves \/ TxPostRejects
    \/ TxNavigateTimerFires \/ HandleQuickInputChange \/ ParseTransactionText
    \/ ParseResolves \/ ParseRejects

SpecTransactionForm == InitTransactionFormSpec /\ [][NextTransactionForm]_vars

\* -------------------------------- specification of the predictions table
\* The component has loaded a prediction; its rows carry percentages on both
\* sides of the two thresholds and on them.
Percentages == {0, 999, 1000, 1001, 1999, 2000, 2001, 10000}

RowOf(pct) ==
    [actual_expense |-> 100,
     potential_savings |-> pct,
     savings_percentage |-> SavingsPercentage(pct, 100)]

LoadedPredictions ==
    { [predictions |-> rows,
       totals |-> [actual_expenses |-> SumOf(rows, "actual_expense"),
                   potential_savings |-> SumOf(rows, "potential_savings"),
                   savings_percentage |->
                       SavingsPercentage(SumOf(rows, "potential_savings"),
                                         SumOf(rows, "actual_expense"))]] :
        rows \in UNION { [cs -> {RowOf(p) : p \in Percentages}] : cs \in SUBSET Categories } }

InitRecommendationSpec ==
    /\ txStore = <<>>
    /\ profileStore \in StoredProfiles
    /\ nowHour = 0
    /\ tz = UTC
    /\ InitRetry /\ InitDashboard /\ InitProfile
    /\ InitTransactionForm /\ InitOtherSession /\ InitView
    /\ spc = "done"
    /\ predictions \in { <<p>> : p \in LoadedPredictions }
    /\ sLoading = FALSE
    /\ sError = Null
    /\ hasProfile = TRUE
    /\ hasTransactions = TRUE
    /\ requested = <<"profile", "transactions", "predict">>
    /\ route = "/predict"
    /\ evt = "init"

NextRecommendation == RenderPredictions

SpecRecommendation == InitRecommendationSpec /\ [][NextRecommendation]_vars

\* ------------------------------------------ specification of the two forms
\* The router mounts one page at a time: the profile form at /profile, the
\* transaction form at /transactions/new.  A pending redirect timer fires
\* once its 2 s have passed (weak fairness of the two timer callbacks).
InitFormsSpec ==
    /\ txStore = <<>>
    /\ profileStore \in {NoProfile} \cup StoredProfiles
    /\ nowHour = 0
    /\ tz = UTC
    /\ InitComponents
    /\ route \in {"/profile", "/transactions/new"}
    /\ evt = "init"

OnProfilePage == route = "/profile" /\ NextProfile
OnTransactionPage == route = "/transactions/new" /\ NextTransactionForm

NextForms == OnProfilePage \/ OnTransactionPage

SpecForms ==
    /\ InitFormsSpec
    /\ [][NextForms]_vars
    /\ WF_vars(NavigateTimerFires)
    /\ WF_vars(TxNavigateTimerFires)

\* ------------------------------------ specification of SavingsPrediction
InitSavingsPredictionSpec ==
    /\ txStore \in TxLists
    /\ profileStore \in {NoProfile} \cup StoredProfiles
    /\ nowHour = 0
    /\ tz = UTC
    /\ InitComponents
    /\ route = "/predict"
    /\ evt = "init"

NextSavingsPrediction ==
    \/ FetchPredictionsStarts \/ ProfileCheckSettles \/ TransactionsCheckSettles
    \/ PredictSettles \/ GetResolves \/ GetRejects \/ BackoffElapses

SpecSavingsPrediction == InitSavingsPredictionSpec /\ [][NextSavingsPrediction]_vars



\* ------------------------------------------------------ claims C1 .. C4
\* C1: a call of fetchWithRetry issues at most 3 GET attempts and stops at the
\* first attempt that succeeds: once an attempt has succeeded no further
\* attempt is issued, and the call returns that attempt's response.
C1_AtMostThreeAttemptsStopAtSuccess ==
    /\ gets <= 3
    /\ outcome.kind = "response" =>
          /\ rpc = "returned"
          /\ outcome.att = gets
          /\ outcome.status = 200
          /\ outcome.data = Data200(url)
    /\ rpc = "returned" => outcome.kind = "response"

\* C1 witness: a call that succeeded at its third attempt, after two failures.
C1_Witness ==
    rpc = "returned" /\ outcome.kind = "response" /\ gets = 3 /\ retries = 2

\* C2: the wait inserted before attempt n+1 is n x 1000 ms, and no wait
\* follows the failure of the last allowed attempt.
C2_BackoffIsAttemptNumberSeconds ==
    /\ \A n \in 1..Len(waits) : waits[n] = n * 1000
    /\ rpc = "sleep" => Len(waits) = gets
    /\ rpc = "get" => Len(waits) = gets - 1
    /\ rpc = "thrown" => Len(waits) = gets - 1 /\ Len(waits) = 2

\* C2 witness: all three attempts failed; the waits were 1 s and 2 s.
C2_Witness == rpc = "thrown" /\ waits = <<1000, 2000>>

\* C3: when every allowed attempt has failed the call throws the error of
\* the final attempt; it does not return normally and does not throw early.
C3_FinalErrorPropagates ==
    /\ retries = 3 => rpc = "thrown"
    /\ rpc = "thrown" =>
          /\ outcome.kind = "error"
          /\ gets = 3 /\ retries = 3
          /\ outcome.att = 3
          /\ outcome.status \in ErrorStatuses(url)
    /\ outcome.kind # "undefined"

\* C3 witness: the third attempt failed with a 500 and the call threw it.
C3_Witness ==
    rpc = "thrown" /\ outcome.kind = "error" /\ outcome.att = 3 /\ outcome.status = 500

\* C4 (as claimed): a definitive 404 is handed to the caller after a single
\* attempt, without a wait and without a further attempt.
C4_NotFoundIsNotRetried ==
    outcome.status = 404 => rpc = "thrown" /\ gets = 1 /\ waits = <<>>


\* ------------------------------------------------------ claims C5 .. C8
\* The Dashboard shows its cards and charts when loading is false and error
\* is null.
DashboardShown == ~dLoading /\ dError = Null

RECURSIVE SumValues(_)
SumValues(m) ==
    IF DOMAIN m = {} THEN 0
    ELSE LET c == CHOOSE x \in DOMAIN m : TRUE
         IN  m[c] + SumValues([x \in DOMAIN m \ {c} |-> m[x]])

\* C5: whenever the Dashboard shows a loaded transaction list, the values of
\* summaryData.byCategory add up to the Total Spending card, the sum of the
\* amounts of all loaded transactions.
C5_CategoryTotalsAddUpToTotalSpending ==
    DashboardShown => SumValues(summaryData.byCategory) = SumAmounts(transactions)

\* C5 witness: two loaded transactions of one category, both counted.
C5_Witness ==
    /\ DashboardShown
    /\ Len(transactions) = 2
    /\ transactions[1].category = "Groceries" /\ transactions[1].amount = 2
    /\ transactions[2].category = "Groceries" /\ transactions[2].amount = 2
    /\ summaryData.byCategory = [c \in {"Groceries"} |-> 4]

\* C6 (as claimed): the trend shown by the Dashboard always has exactly 7
\* entries on consecutive calendar days, increasing and ending today; for the
\* empty transaction list all 7 amounts are 0 and the category mapping is empty.
C6_TrendIsSevenConsecutiveDaysEndingToday ==
    DashboardShown =>
        LET r == summaryData.recentTrends
        IN  /\ Len(r) = 7
            /\ \A k \in 1..6 : r[k + 1].date = r[k].date + 1
            /\ r[7].date = 0
            /\ transactions = <<>> =>
                  /\ \A k \in 1..7 : r[k].amount = 0
                  /\ summaryData.byCategory = EmptyMapping

\* C7: the category mapping has a key for exactly the categories that occur in
\* a loaded transaction, each mapped to the sum of the amounts of that
\* category's transactions.
C7_KeysAreTheOccurringCategories ==
    DashboardShown =>
        LET m == summaryData.byCategory
        IN  /\ DOMAIN m = { transactions[i].category : i \in DOMAIN transactions }
            /\ \A c \in DOMAIN m :
                  m[c] = SumAmounts(SelectSeq(transactions, LAMBDA t : t.category = c))

\* C7 witness: a category whose only transaction has amount 0 still has a key.
C7_Witness ==
    /\ DashboardShown
    /\ Len(transactions) = 2
    /\ transactions[1].category = "Groceries" /\ transactions[1].amount = 0
    /\ transactions[2].category = "Transport" /\ transactions[2].amount = 2
    /\ DOMAIN summaryData.byCategory = {"Groceries", "Transport"}

\* C8 (as claimed): in the trend computed from the transactions each of the 7
\* entries is the sum of the amounts of the transactions dated that day, and a
\* transaction dated outside the 7 days ending today (days -6 .. 0) is in its
\* category's total but adds to no trend entry.
C8_TrendEntriesAreDaySumsWithinWindow ==
    trendSource = "computed" =>
        LET r == summaryData.recentTrends
        IN  /\ Len(r) = 7
            /\ \A k \in 1..7 : r[k].amount = SumAmounts(OnDate(transactions, r[k].date))
            /\ \A i \in DOMAIN transactions :
                  (transactions[i].date \notin -6..0 /\ transactions[i].amount > 0) =>
                      /\ transactions[i].category \in DOMAIN summaryData.byCategory
                      /\ \A k \in 1..7 : r[k].date # transactions[i].date

\* ------------------------------------------------------ claims C9, C10
\* The forms the claim calls invalid: an age that is not within 18..100,
\* dependents below 0, or no occupation.
InvalidProfileForm(f) ==
    \/ ~(f.age.t = "num" /\ f.age.n >= 18 /\ f.age.n <= 100)
    \/ (f.dependents.t = "num" /\ f.dependents.n < 0)
    \/ f.occupation = ""

\* C9: a submit of the profile form with an age outside 18..100, dependents
\* below 0 or no occupation issues no POST /api/profile and changes no stored
\* profile; it sets an error message and does not set success.
C9_InvalidSubmitIssuesNoPost ==
    [][ (HandleSubmit /\ InvalidProfileForm(formData)) =>
            /\ postBody' = <<>>
            /\ profileStore' = profileStore
            /\ pError' # Null
            /\ success' = success ]_vars

\* C9 witness: the form was submitted with age 15 and was refused.
C9_Witness ==
    /\ evt = "HandleSubmit"
    /\ formData.age = Num(15)
    /\ formData.occupation = "Salaried"
    /\ pError = "Age must be between 18 and 100"
    /\ postBody = <<>>
    /\ ~success

\* C10 (as claimed): every profile sent by POST /api/profile has an integer
\* dependents >= 0, an integer age within 18..100 and an occupation.
C10_PostedProfileIsWellFormed ==
    postBody # <<>> =>
        /\ postBody[1].dependents.t = "num" /\ postBody[1].dependents.n >= 0
        /\ postBody[1].age.t = "num" /\ postBody[1].age.n >= 18 /\ postBody[1].age.n <= 100
        /\ postBody[1].occupation # ""

\* ------------------------------------------------- TransactionForm claims
\* C11 (as claimed): every transaction sent by POST /api/transactions has an
\* amount that is a number >= 0 and a category out of the fixed eight.
C11_PostedTransactionIsWellFormed ==
    tPost # <<>> =>
        /\ tPost[1].amount.t = "num"
        /\ tPost[1].amount.n >= 0
        /\ tPost[1].category \in categories

\* C12 (as claimed): an amount of exactly 0 is a valid amount: typing 0 leaves
\* the number 0 in the form, and a submit of a form whose amount is 0 (and
\* whose category and description are given) issues the POST with amount 0.
C12_ZeroAmountIsSubmitted ==
    [][ /\ TxHandleChangeOf("amount", "0") => tForm'.amount = Num(0)
        /\ ( /\ TxHandleSubmit
             /\ tForm.amount = Num(0)
             /\ tForm.category # ""
             /\ tForm.description # "" ) => tPost' = << TransactionBody(tForm) >> ]_vars

\* category, amount or description is missing (empty) in form f.
SomeFieldEmpty(f) == f.category = "" \/ f.amount = EmptyStr \/ f.description = ""

\* C13: a submit of the transaction form with category, amount or description
\* missing issues no POST, sets an error message, leaves the form fields as
\* they were, does not set success and ends with loading = false.
C13_IncompleteSubmitIssuesNoPost ==
    [][ (TxHandleSubmit /\ SomeFieldEmpty(tForm)) =>
            /\ tPost' = <<>>
            /\ tError' # Null
            /\ tForm' = tForm
            /\ tSuccess' = tSuccess
            /\ tLoading' = FALSE ]_vars

\* C13 witness: a form with category and description but no amount was
\* submitted and refused.
C13_Witness ==
    /\ evt = "TxHandleSubmit"
    /\ tForm.category = "Eating_Out"
    /\ tForm.description = "Samosa"
    /\ tForm.amount = EmptyStr
    /\ tError = "Please fill in all required fields"
    /\ tPost = <<>>
    /\ ~tLoading
    /\ ~tSuccess

\* C14: when the quick-input parse call fails, the form fields, loading and
\* success stay as they were, an error message is set and no transaction
\* POST is issued; unless a submit is already in flight, the manual form can
\* be submitted right afterwards.
C14_FailedParseKeepsTheFormUsable ==
    /\ [][ evt' = "ParseRejects" =>
              /\ tForm' = tForm
              /\ tError' # Null
              /\ tPost' = tPost
              /\ tLoading' = tLoading
              /\ tSuccess' = tSuccess ]_vars
    /\ []( (evt = "ParseRejects" /\ tPost = <<>>) => ENABLED TxHandleSubmit )

\* C14 witness: the parse of an unparseable text failed while the form held
\* what the user had entered by hand.
C14_Witness ==
    /\ evt = "ParseRejects"
    /\ quickInput = "hello"
    /\ tError = "Could not parse transaction. Please use format: \"Item amount category\""
    /\ tForm.category = "Eating_Out"
    /\ tForm.amount = Num(30)
    /\ tForm.description = "Samosa"
    /\ tPost = <<>>
    /\ ~tLoading

\* ----------------------------------------------- SavingsPrediction claims
\* C15 (as claimed): when GET /api/profile/{userId} was answered 404, the
\* load of SavingsPrediction ends in the Profile Missing state: hasProfile
\* false, loading false, error null.
C15_NotFoundProfileEndsInProfileMissing ==
    (spc = "done" /\ url = "profile" /\ seen404) =>
        /\ hasProfile = FALSE
        /\ sLoading = FALSE
        /\ sError = Null

\* C16 (as claimed): hasTransactions is false only when the transactions
\* list was fetched successfully and is empty, and a transactions request
\* that failed ends the load in the error state.
C16_NoTransactionsOnlyWhenFetchedEmpty ==
    /\ ~hasTransactions =>
          /\ url = "transactions"
          /\ outcome.kind = "response"
          /\ Len(outcome.data) = 0
    /\ (spc = "done" /\ url = "transactions" /\ outcome.kind = "error") =>
          /\ sError # Null
          /\ PredictionView = "error"

\* C17: fetchPredictions asks for the profile, then the transactions, then
\* the predictions, each at most once and in that order; the transactions
\* only after the profile call succeeded, the predictions only after the
\* transactions call returned a non-empty list.  With the profile absent
\* only the profile was asked for, with no transactions the predictions
\* were not asked for.
C17_PredictOnlyAfterProfileAndTransactions ==
    /\ requested \in { <<>>, <<"profile">>, <<"profile", "transactions">>,
                        <<"profile", "transactions", "predict">> }
    /\ rpc \in {"get", "sleep", "returned", "thrown"} => url = requested[Len(requested)]
    /\ Len(requested) >= 2 => (hasProfile /\ profileStore # NoProfile)
    /\ Len(requested) = 3 => (hasTransactions /\ Len(txStore) > 0)
    /\ ~hasProfile => requested = <<"profile">>
    /\ ~hasTransactions => requested = <<"profile", "transactions">>

\* C17 witness: all three were asked for and the predictions arrived.
C17_Witness ==
    /\ spc = "done"
    /\ requested = <<"profile", "transactions", "predict">>
    /\ predictions # <<>>
    /\ PredictionView = "predictions"

\* ---------------------------------------------------- Profile Store claim
\* C18: saving a profile is an upsert.  Whenever a POST /api/profile is
\* answered 200, the one stored profile of the user is exactly the profile of
\* that submission, whatever was stored before (so after two submissions it
\* carries the values of the second); the stored profile changes at no other
\* moment, so with two submissions in flight at once it is always one of the
\* two in full, never a mixture of their fields.
C18_UpsertStoresOneSubmissionInFull ==
    [][ /\ evt' = "PostResolves" => profileStore' = ProfileOf(postBody[1])
        /\ evt' = "OtherPostResolves" => profileStore' = otherPost[1]
        /\ profileStore' # profileStore =>
              evt' \in {"PostResolves", "OtherPostResolves"} ]_vars

\* C18 witness: the other session's profile had been stored, then this
\* session's submission was answered while a further submission of the other
\* session was in flight: the store holds this session's profile in full.
C18_Witness ==
    /\ evt = "PostResolves"
    /\ otherAcked
    /\ otherPost # <<>>
    /\ profileStore = [age |-> 30, dependents |-> 0, occupation |-> "Salaried"]

\* ------------------------------------------------ Prediction Engine claims
\* pct (hundredths of a percent) is 100 * savings / expense to the precision
\* kept, and 0 when the expense is 0; savings are hundredths of a unit.
IsSavingsPercentage(pct, savings, expense) ==
    IF expense = 0 THEN pct = 0
    ELSE pct * expense <= 100 * savings /\ 100 * savings < (pct + 1) * expense

\* C19: in every prediction the page received, each category has
\* 0 <= potential_savings <= actual_expense and savings_percentage =
\* 100 * potential_savings / actual_expense, 0 when actual_expense is 0; the
\* totals are the sums over the categories, with the same guarded division.
C19_SavingsWithinExpenseAndGuardedPercentage ==
    predictions # <<>> =>
        LET p == predictions[1].predictions
            t == predictions[1].totals
        IN  /\ \A c \in DOMAIN p :
                  /\ 0 <= p[c].potential_savings
                  /\ p[c].potential_savings <= 100 * p[c].actual_expense
                  /\ IsSavingsPercentage(p[c].savings_percentage,
                                         p[c].potential_savings, p[c].actual_expense)
            /\ t.actual_expenses = SumAmounts(txStore)
            /\ t.potential_savings <= 100 * t.actual_expenses
            /\ IsSavingsPercentage(t.savings_percentage,
                                   t.potential_savings, t.actual_expenses)

\* C19 witness: Groceries with an expense of 2 at 20 percent and Transport
\* with an expense of 0.
C19_Witness ==
    /\ predictions # <<>>
    /\ DOMAIN predictions[1].predictions = {"Groceries", "Transport"}
    /\ predictions[1].predictions["Groceries"] =
          [actual_expense |-> 2, potential_savings |-> 40, savings_percentage |-> 2000]
    /\ predictions[1].predictions["Transport"] =
          [actual_expense |-> 0, potential_savings |-> 0, savings_percentage |-> 0]
    /\ predictions[1].totals =
          [actual_expenses |-> 2, potential_savings |-> 40, savings_percentage |-> 2000]

\* GET /api/predict of a user with a profile and no transactions was answered.
PredictedOverNoCategories ==
    /\ url = "predict"
    /\ outcome.kind = "response"
    /\ Len(txStore) = 0

\* C20: a prediction over zero categories is an answer, not an error: its
\* predictions are empty and its three totals are 0; such a request is never
\* refused with a 4xx status.
C20_NoCategoriesGiveEmptyPredictionAndZeroTotals ==
    /\ PredictedOverNoCategories =>
          /\ DOMAIN outcome.data.predictions = {}
          /\ outcome.data.totals =
                [actual_expenses |-> 0, potential_savings |-> 0, savings_percentage |-> 0]
    /\ ( /\ url = "predict" /\ outcome.kind \in {"caught", "error"}
         /\ Len(txStore) = 0 /\ profileStore # NoProfile ) => outcome.status \in {0, 500}

\* C20 witness: the first attempt of such a request was answered 200.
C20_Witness ==
    /\ PredictedOverNoCategories
    /\ rpc = "returned"
    /\ outcome.att = 1

\* ------------------------------------------------------ claims C21 .. C25
\* C21 (as claimed): a run of processTransactionData on a snapshot that an
\* earlier run has already aggregated leaves the result as it is: the same
\* category mapping and the same trend sequence (dates and amounts).
C21_SecondRunGivesTheSameResult ==
    [][ (evt' = "AggregationRuns" /\ trendSource # "none") =>
            summaryData' = summaryData ]_vars

\* The load is over and its spending-trends request had failed for good.
TrendsRequestFailed ==
    /\ dpc = "done"
    /\ url = "spending-trends"
    /\ outcome.kind = "error"

\* C22: when the transactions request succeeded and the spending-trends
\* request failed after its retries, the Dashboard is not in the error state
\* (error null, loading false), it holds the loaded transactions, and its
\* category mapping and its trend come from them: each category maps to the
\* sum of its transactions, each trend entry to the sum of the transactions
\* of its date, 7 entries for a non-empty list.
C22_TrendsFailureFallsBackToTransactions ==
    TrendsRequestFailed =>
        LET m == summaryData.byCategory
            r == summaryData.recentTrends
        IN  /\ dError = Null
            /\ dLoading = FALSE
            /\ transactions = txStore
            /\ trendSource # "api"
            /\ DOMAIN m = { transactions[i].category : i \in DOMAIN transactions }
            /\ \A c \in DOMAIN m :
                  m[c] = SumAmounts(SelectSeq(transactions, LAMBDA t : t.category = c))
            /\ Len(transactions) > 0 => Len(r) = 7
            /\ \A k \in DOMAIN r : r[k].amount = SumAmounts(OnDate(transactions, r[k].date))

\* C22 witness: two transactions were loaded, the trends request failed three
\* times, and the trend shows the transaction dated today.
C22_Witness ==
    /\ TrendsRequestFailed
    /\ outcome.att = 3
    /\ tz = UTC
    /\ Len(transactions) = 2
    /\ transactions[1] = [category |-> "Groceries", amount |-> 2, date |-> 0]
    /\ transactions[2] = [category |-> "Transport", amount |-> 2, date |-> -7]
    /\ summaryData.byCategory = [c \in {"Groceries", "Transport"} |-> 2]
    /\ summaryData.recentTrends[7] = [date |-> 0, amount |-> 2]
    /\ dError = Null

\* C25: when the transactions request has failed after its retries, the step
\* that takes the failure ends the load in the error state (error set,
\* loading false), issues no further request and leaves summaryData as it
\* was; the spending-trends endpoint is only ever requested after the
\* transactions were loaded without error.
C25_FailedTransactionsEndTheLoadInError ==
    /\ [][ (dpc = "awaitTransactions" /\ rpc = "thrown" /\ evt' = "TransactionsSettle") =>
              /\ dError' # Null
              /\ dLoading' = FALSE
              /\ dpc' = "done"
              /\ rpc' = "idle"
              /\ url' = "transactions"
              /\ summaryData' = summaryData ]_vars
    /\ [](url = "spending-trends" => (dError = Null /\ transactions = txStore))

\* C25 witness: the load ended after three failed attempts of the
\* transactions request, with the initial summaryData.
C25_Witness ==
    /\ dpc = "done"
    /\ evt = "TransactionsSettle"
    /\ url = "transactions"
    /\ outcome.kind = "error" /\ outcome.att = 3
    /\ Len(txStore) = 2
    /\ dError # Null
    /\ dLoading = FALSE
    /\ summaryData = [byCategory |-> EmptyMapping, recentTrends |-> <<>>]

\* -------------------------------------------------------------- claim C24
\* C24 (as claimed): a load that has run to its end, on whichever path, has
\* set loading to false, in Dashboard, in SavingsPrediction and in
\* UserProfile.
C24_EveryLoadEndsWithLoadingFalse ==
    /\ dpc = "done" => dLoading = FALSE
    /\ spc = "done" => sLoading = FALSE
    /\ ppc = "done" => pLoading = FALSE

\* ------------------------------------------------------ claims C23 .. C29
\* C23: on either form, the answer to a successful submission starts the
\* redirect, and a started redirect does take the app to /dashboard; a submit
\* that fails validation and a POST that fails start no redirect, and the
\* route changes for no other reason than a redirect started by a success.
C23_OnlyASuccessfulSubmitRedirects ==
    /\ [][ /\ evt' = "PostResolves" => (success' /\ navTimer')
           /\ evt' = "TxPostResolves" => (tSuccess' /\ tNavTimer')
           /\ evt' \in {"HandleSubmit", "PostRejects"} => navTimer' = navTimer
           /\ evt' \in {"TxHandleSubmit", "TxPostRejects"} => tNavTimer' = tNavTimer
           /\ navTimer' => success'
           /\ tNavTimer' => tSuccess'
           /\ route' # route => ((navTimer \/ tNavTimer) /\ route' = "/dashboard") ]_vars
    /\ (navTimer ~> route = "/dashboard")
    /\ (tNavTimer ~> route = "/dashboard")

\* C23 witness: the transaction form was left for /dashboard after a
\* submission that had succeeded.
C23_Witness ==
    /\ route = "/dashboard"
    /\ evt = "TxNavigateTimerFires"
    /\ tSuccess
    /\ tNavigated
    /\ tPost = <<>>

\* C26 (as claimed): on the transaction form and on the profile form, in
\* every reachable state, success = true implies error = null.
C26_SuccessAndErrorNeverTogether ==
    /\ tSuccess => tError = Null
    /\ success => pError = Null

\* C27 (as claimed): applying a successful parse response changes only the
\* description, the amount and the category of the form: the date keeps the
\* value it had immediately before, also when the user edited the date while
\* the parse call was in flight.
C27_ParseKeepsTheDate ==
    [][ evt' = "ParseResolves" => tForm'.date = tForm.date ]_vars

\* C28: while the POST of a form is in flight, loading (saving) is true and
\* the submit button is disabled; no handleSubmit runs while a POST of its
\* form is outstanding, so there is at most one per form; the answer to the
\* POST, success or failure, sets loading (saving) back to false, and it is
\* true at no other time.
C28_OneSubmissionInFlightPerForm ==
    /\ []( /\ tPost # <<>> => (tLoading /\ TxSubmitDisabled)
           /\ postBody # <<>> => (saving /\ SubmitDisabled)
           /\ tLoading => tPost # <<>>
           /\ saving => postBody # <<>> )
    /\ [][ /\ evt' = "TxHandleSubmit" => tPost = <<>>
           /\ evt' = "HandleSubmit" => postBody = <<>>
           /\ evt' \in {"TxPostResolves", "TxPostRejects"} => (tLoading' = FALSE /\ tPost' = <<>>)
           /\ evt' \in {"PostResolves", "PostRejects"} => (saving' = FALSE /\ postBody' = <<>>)
        ]_vars

\* C28 witness: a transaction POST is in flight while the user goes on
\* editing the form.
C28_Witness ==
    /\ tPost # <<>>
    /\ tLoading
    /\ evt = "TxHandleChange"
    /\ tForm.amount # tPost[1].amount

\* C29: a parse of an empty or whitespace-only quick-input text issues no
\* request to /api/parse-transaction and leaves formData, error, success and
\* quickInput as they were.
C29_BlankQuickInputDoesNothing ==
    [][ (evt' = "ParseTransactionText" /\ quickInput \in {"", " "}) =>
            /\ parseReq' = parseReq
            /\ tForm' = tForm
            /\ tError' = tError
            /\ tSuccess' = tSuccess
            /\ quickInput' = quickInput ]_vars

\* C29 witness: a whitespace-only text was parsed while the form held an
\* entry and an earlier error, and nothing was sent.
C29_Witness ==
    /\ evt = "ParseTransactionText"
    /\ quickInput = " "
    /\ parseReq = <<>>
    /\ tForm.description = "Samosa"
    /\ tError = "Please fill in all required fields"

\* ------------------------------------------------------------- claim C30
High == "High potential for savings!"
Moderate == "Moderate savings possible"
Efficient == "Good job! You're already efficient"

\* C30: the Recommendation cell of a row reads 'High potential for savings!'
\* exactly when the row's savings_percentage is above 20, 'Moderate savings
\* possible' exactly when it is above 10 and at most 20, and 'Good job! You're
\* already efficient' exactly when it is at most 10; each row shows exactly
\* one of the three.
C30_RecommendationFollowsTheTwoThresholds ==
    cells # <<>> =>
        /\ DOMAIN cells[1] = DOMAIN predictions[1].predictions
        /\ \A c \in DOMAIN cells[1] :
              LET pct == predictions[1].predictions[c].savings_percentage
                  shown == cells[1][c]
              IN  /\ shown \in {High, Moderate, Efficient}
                  /\ shown = High <=> pct > 2000
                  /\ shown = Moderate <=> (pct > 1000 /\ pct <= 2000)
                  /\ shown = Efficient <=> pct <= 1000

\* C30 witness: a row of exactly 20 percent is rendered as moderate next to
\* a row of exactly 10 percent rendered as efficient.
C30_Witness ==
    /\ cells # <<>>
    /\ DOMAIN cells[1] = {"Groceries", "Transport"}
    /\ predictions[1].predictions["Groceries"].savings_percentage = 2000
    /\ cells[1]["Groceries"] = Moderate
    /\ predictions[1].predictions["Transport"].savings_percentage = 1000
    /\ cells[1]["Transport"] = Efficient
====
